---- MODULE Spec2Model ----
\* Model of the any_table data binding (useTableData, the Mosaic row and count
\* clients, the sparse data model) and of the scroll scheduler (useTableScroll).
EXTENDS Integers, Sequences, FiniteSets, TLC

\* ------------------------------------------------------------------ bounds

\* Number of rows of the table under the empty filter.
MaxRows == 3
\* Page size used by the callers of setWindow in the model.
PageSize == 2
\* Layout and viewport of the scroll scheduler, in pixels.
RowHeight == 2
ViewportHeight == 3
TotalWidth == 3
ViewportWidth == 2
\* Vertical distance of one wheel event, in pixels.
WheelStep == 2
\* Overscan passed to useTableScroll, in rows.
Overscan == 1
\* Animation-frame callbacks that may be outstanding at once in the model.
MaxFrames == 2
\* Number of rows of the table whose fetch windows are followed: more than one
\* fetch window band.
ScrollRows == 22
\* Vertical distance of one wheel event over that table, in pixels.
FetchStep == 14

\* ------------------------------------------------------- program constants

\* createRowsClient: let currentLimit = 100
DefaultLimit == 100
\* Pad factor F of the fetch window band.
PadFactor == 3

NoQuery == [kind |-> "none"]
\* Sort values: null, one SortField {column, desc}, or a list of SortFields.
NullSort == [kind |-> "null"]
SortField(c, d) == [kind |-> "field", column |-> c, desc |-> d]
SortList(fields) == [kind |-> "list", fields |-> fields]
\* The sorts the callers of setSort use: the null sort and one sort field.
Sorts == {NullSort, SortField("a", FALSE)}
\* Predicates of the shared filter selection: none, and one that drops a row.
Filters == {"all", "some"}
WindowOffsets == {0, PageSize}
WindowLimits == {PageSize}

VARIABLES
    \* useTableData ---------------------------------------------------------
    initPc,          \* position of the async init() of the Mosaic-mode effect
    cancelled,       \* the `cancelled` flag of the effect run that started init()
    arrayRows,       \* the `rows` option: null (NoQuery) in Mosaic mode
    sort,            \* React state `sort` exposed on the data handle
    isLoading,       \* React state `isLoading`
    rows,            \* SparseDataModel row mapping: position -> row record
    totalRows,       \* SparseDataModel.totalRows
    rowsClientRef,   \* TRUE once rowsClientRef.current holds a client
    \* createRowsClient closure ----------------------------------------------
    currentSort,
    currentOffset,
    currentLimit,
    \* coordinator --------------------------------------------------------
    filter,          \* current predicate of the shared filter selection
    rowsConnected,   \* coordinator.connect(rowsClient) has run
    rowsPending,     \* a re-execution of the row client is requested
    rowsInFlight,    \* the row queries in flight, in issue order
    countConnected,
    countPending,
    countInFlight,
    \* observations (history of calls, not program state) --------------------
    lastWindow,      \* the (offset, limit) of the last fetchWindow call
    lastIssued,      \* the last row query handed to the database
    lastMerge,       \* the last mergeRows call made by the row client's onResult
    lastError,       \* the last query failure handed to the error sink
    \* useTableScroll --------------------------------------------------------
    mounted,         \* the hook is mounted
    rowHeight,       \* layout.rowHeight of the current render
    viewportHeight,  \* containerRef.current?.clientHeight ?? 0
    scrollTopRef,
    scrollLeftRef,
    rafIdRef,        \* 0 is null
    frames,          \* requestAnimationFrame callbacks not yet run, oldest first
    fetchWindowRef,
    lastTouchRef,
    visibleRowRange, \* React state published to observers
    rangeObject,     \* identity of the object the visibleRowRange state holds
    scrollTop,       \* React state published to observers
    scrollLeft,      \* React state published to observers
    \* observations ------------------------------------------------------------
    inputsSince,     \* scroll inputs since updateScroll last ran (capped at 2)
    scheduledSince   \* frames they scheduled since then (capped at 2)

dataVars == <<initPc, cancelled, arrayRows, sort, isLoading, rows, totalRows, rowsClientRef,
              currentSort, currentOffset, currentLimit, filter, rowsConnected,
              rowsPending, rowsInFlight, countConnected, countPending,
              countInFlight, lastWindow, lastIssued, lastMerge, lastError>>

scrollVars == <<mounted, rowHeight, viewportHeight, scrollTopRef, scrollLeftRef,
                rafIdRef, frames, fetchWindowRef, lastTouchRef, visibleRowRange, rangeObject,
                scrollTop, scrollLeft, inputsSince, scheduledSince>>

vars == <<dataVars, scrollVars>>

\* ------------------------------------------------------------ the database

\* The row whose transported value is not the text of an integer.
BadOid == 2
RawValue(oid) == IF oid = BadOid THEN "x" ELSE "7"

\* Rows of a table that the first window of a row client does not cover.
HugeRows == DefaultLimit + 4

\* count(*) of the table under filter predicate f.
\* The predicate "long" stands for the long table scrolled over, unfiltered,
\* "huge" for a table longer than the first window of a row client.
TableCount(f) ==
    IF f = "all" THEN MaxRows
    ELSE IF f = "some" THEN MaxRows - 1
    ELSE IF f = "huge" THEN HugeRows
    ELSE ScrollRows

Min(a, b) == IF a < b THEN a ELSE b
Max(a, b) == IF a > b THEN a ELSE b

\* The rows a row query returns: positions offset .. offset+limit-1 of the
\* result set ordered by sort s under filter f; __oid is the one-based position.
\* v is the raw value of the row's one wide-integer column as transported.
QueryRows(s, f, offset, limit) ==
    LET n == Max(0, Min(limit, TableCount(f) - offset))
    IN  [k \in 1..n |-> [oid |-> offset + k, s |-> s, f |-> f,
                          v |-> RawValue(offset + k)]]

\* ------------------------------------------------------- SparseDataModel

NoRows == [p \in {} |-> 0]

clear(m) == NoRows

mergeRows(m, offset, batch) ==
    [p \in (DOMAIN m) \cup {offset + k - 1 : k \in 1..Len(batch)} |->
        IF p - offset + 1 \in 1..Len(batch) THEN batch[p - offset + 1] ELSE m[p]]

\* setTotalRows(n): rows at positions >= n are discarded.
setTotalRowsRows(m, n) == [p \in {q \in DOMAIN m : q < n} |-> m[p]]

hasRow(i) == i \in DOMAIN rows

\* --------------------------------------------------------------- Init

\* useTableScroll after its first render: refs and published state at zero,
\* the layout resolved and the container laid out.
InitScrollVars ==
    /\ mounted = TRUE
    /\ rowHeight = RowHeight
    /\ viewportHeight = ViewportHeight
    /\ scrollTopRef = 0
    /\ scrollLeftRef = 0
    /\ rafIdRef = 0
    /\ frames = <<>>
    /\ fetchWindowRef = NoQuery
    /\ lastTouchRef = NoQuery
    /\ visibleRowRange = [start |-> 0, end |-> 0]
    /\ rangeObject = 0
    /\ scrollTop = 0
    /\ scrollLeft = 0
    /\ inputsSince = 0
    /\ scheduledSince = 0

Init ==
    /\ initPc = "import"
    /\ cancelled = FALSE
    /\ arrayRows = NoQuery
    /\ sort = NullSort
    /\ isLoading = TRUE
    /\ rows = NoRows
    /\ totalRows = 0
    /\ rowsClientRef = FALSE
    /\ currentSort = NullSort
    /\ currentOffset = 0
    /\ currentLimit = DefaultLimit
    /\ filter = "all"
    /\ rowsConnected = FALSE
    /\ rowsPending = FALSE
    /\ rowsInFlight = <<>>
    /\ countConnected = FALSE
    /\ countPending = FALSE
    /\ countInFlight = <<>>
    /\ lastWindow = NoQuery
    /\ lastIssued = NoQuery
    /\ lastMerge = NoQuery
    /\ lastError = NoQuery
    /\ InitScrollVars

\* ------------------------------------------------- useTableData: init()

\* The dynamic imports resolve; init() returns when the run was cancelled.
InitImported ==
    /\ initPc = "import"
    /\ initPc' = IF cancelled THEN "cancelled" ELSE "schema"
    /\ UNCHANGED <<cancelled, arrayRows, sort, isLoading, rows, totalRows, rowsClientRef,
                   currentSort, currentOffset, currentLimit, filter, rowsConnected,
                   rowsPending, rowsInFlight, countConnected, countPending,
                   countInFlight, lastWindow, lastIssued, lastMerge, lastError>>

\* fetchSchema resolves; init() returns when the run was cancelled. Otherwise:
\* setSchema, model.clear(), both clients are created (the row client with sort
\* null, offset 0, limit 100), both refs are set and
\* coordinator.connect(countClient) requests the first count query.
InitSchemaFetched ==
    /\ initPc = "schema"
    /\ IF cancelled
         THEN /\ initPc' = "cancelled"
              /\ UNCHANGED <<rows, rowsClientRef, currentSort, currentOffset,
                             currentLimit, countConnected, countPending>>
         ELSE /\ initPc' = "connectRows"
              /\ rows' = clear(rows)
              /\ rowsClientRef' = TRUE
              /\ currentSort' = NullSort
              /\ currentOffset' = 0
              /\ currentLimit' = DefaultLimit
              /\ countConnected' = TRUE
              /\ countPending' = TRUE
    /\ UNCHANGED <<cancelled, arrayRows, sort, isLoading, totalRows, filter, rowsConnected,
                   rowsPending, rowsInFlight, countInFlight, lastWindow, lastIssued,
                   lastMerge, lastError>>

\* fetchSchema rejects: the catch block logs and sets isLoading false, unless
\* the run was cancelled.
InitSchemaFailed ==
    /\ initPc = "schema"
    /\ initPc' = "failed"
    /\ isLoading' = IF cancelled THEN isLoading ELSE FALSE
    /\ UNCHANGED <<cancelled, arrayRows, sort, rows, totalRows, rowsClientRef, currentSort,
                   currentOffset, currentLimit, filter, rowsConnected, rowsPending,
                   rowsInFlight, countConnected, countPending, countInFlight,
                   lastWindow, lastIssued, lastMerge, lastError>>

\* await coordinator.connect(countClient) resumes: coordinator.connect(rowsClient)
\* requests the first row query. The cancelled flag is not read here.
InitRowsConnected ==
    /\ initPc = "connectRows"
    /\ initPc' = "ready"
    /\ rowsConnected' = TRUE
    /\ rowsPending' = TRUE
    /\ UNCHANGED <<cancelled, arrayRows, sort, isLoading, rows, totalRows, rowsClientRef,
                   currentSort, currentOffset, currentLimit, filter, rowsInFlight,
                   countConnected, countPending, countInFlight, lastWindow,
                   lastIssued, lastMerge, lastError>>

\* The cleanup of the Mosaic-mode effect (unmount, or a change of table,
\* coordinator, filter or columns): cancelled = true, and the clients the two
\* refs hold are disconnected. Both refs are set in the same synchronous
\* stretch of init(), so rowsClientRef stands for both.
Cleanup ==
    /\ ~cancelled
    /\ cancelled' = TRUE
    /\ rowsConnected' = IF rowsClientRef THEN FALSE ELSE rowsConnected
    /\ countConnected' = IF rowsClientRef THEN FALSE ELSE countConnected
    /\ UNCHANGED <<initPc, arrayRows, sort, isLoading, rows, totalRows,
                   rowsClientRef, currentSort, currentOffset, currentLimit, filter,
                   rowsPending,
                   rowsInFlight, countPending, countInFlight, lastWindow,
                   lastIssued, lastMerge, lastError>>

\* ------------------------------------------------------ createRowsClient

\* client.requestUpdate(): asks the coordinator for a re-execution.
requestUpdate == rowsPending' = TRUE

\* A fetchWindow that keeps the previous offset.
fetchWindowKeepsOffset(offset, limit) ==
    /\ currentOffset' = currentOffset
    /\ currentLimit' = limit
    /\ requestUpdate

fetchWindow(offset, limit) ==
    /\ currentOffset' = offset
    /\ currentLimit' = limit
    /\ requestUpdate

\* ---------------------------------------------------- useTableData handle

\* setSort(newSort), Mosaic mode: the sort state is set; when the row client
\* exists its sort is written, the model is cleared and an update requested.
setSort(newSort) ==
    /\ sort' = newSort
    /\ IF rowsClientRef
         THEN /\ currentSort' = newSort
              /\ rows' = clear(rows)
              /\ requestUpdate
         ELSE UNCHANGED <<currentSort, rows, rowsPending>>
    /\ UNCHANGED <<initPc, cancelled, arrayRows, isLoading, totalRows, rowsClientRef,
                   currentOffset, currentLimit, filter, rowsConnected, rowsInFlight, countConnected,
                   countPending, countInFlight, lastWindow, lastIssued, lastMerge, lastError>>

FetchWindow(offset, limit) == [kind |-> "window", offset |-> offset, limit |-> limit]

\* The variables a setWindow call may write.
setWindowVars == <<currentOffset, currentLimit, rowsPending, lastWindow>>

\* setWindow(offset, limit): forwarded to the row client when it exists.
setWindow(offset, limit) ==
    IF rowsClientRef
      THEN /\ fetchWindow(offset, limit)
           /\ lastWindow' = FetchWindow(offset, limit)
      ELSE UNCHANGED setWindowVars

\* A caller of the data handle sets the fetch window.
SetWindowCall(offset, limit) ==
    /\ setWindow(offset, limit)
    /\ UNCHANGED <<initPc, cancelled, arrayRows, sort, isLoading, rows, totalRows, rowsClientRef,
                   currentSort, filter, rowsConnected, rowsInFlight, countConnected,
                   countPending, countInFlight, lastIssued, lastMerge, lastError>>

\* ------------------------------------------------------------ coordinator

\* The shared filter selection takes a new predicate: the coordinator
\* re-invokes the query method of every connected client.
FilterUpdate(f) ==
    /\ f # filter
    /\ filter' = f
    /\ rowsPending' = (rowsPending \/ rowsConnected)
    /\ countPending' = (countPending \/ countConnected)
    /\ UNCHANGED <<initPc, cancelled, arrayRows, sort, isLoading, rows, totalRows, rowsClientRef,
                   currentSort, currentOffset, currentLimit, rowsConnected,
                   rowsInFlight, countConnected, countInFlight, lastWindow,
                   lastIssued, lastMerge, lastError>>

\* The coordinator lets a client start a query only when none is outstanding.
MayIssue(inFlight) == Len(inFlight) = 0

\* client.query(filter) of the row client: built from the closure's current
\* sort, limit and offset when the coordinator invokes it.
\* normalizeSortFields(sort): null stays null, one field becomes a list of one.
normalizeSortFields(value) ==
    IF value = NullSort
      THEN [null |-> TRUE, fields |-> <<>>]
      ELSE [null |-> FALSE,
            fields |-> IF value.kind = "list" THEN value.fields ELSE <<value>>]

\* sf.desc ? desc(column(sf.column)) : column(sf.column)
orderExpr(sf) == [column |-> sf.column, desc |-> sf.desc]

\* The ordering expressions of a sort, for the window function and for the
\* query: none when the sort is null or empty.
orderExprs(value) ==
    LET sortFields == normalizeSortFields(value)
    IN  IF ~sortFields.null /\ Len(sortFields.fields) > 0
          THEN [i \in 1..Len(sortFields.fields) |-> orderExpr(sortFields.fields[i])]
          ELSE <<>>

\* A row query whose window function is left without ordering.
RowsQueryOidUnordered ==
    [kind |-> "rows", s |-> currentSort, f |-> filter,
     oidOrder |-> <<>>, orderBy |-> orderExprs(currentSort),
     offset |-> currentOffset, limit |-> currentLimit]

RowsQuery ==
    [kind |-> "rows", s |-> currentSort, f |-> filter,
     oidOrder |-> orderExprs(currentSort), orderBy |-> orderExprs(currentSort),
     offset |-> currentOffset, limit |-> currentLimit]

RowsIssue ==
    /\ rowsConnected
    /\ rowsPending
    /\ MayIssue(rowsInFlight)
    /\ rowsInFlight' = Append(rowsInFlight, RowsQuery)
    /\ rowsPending' = FALSE
    /\ lastIssued' = FetchWindow(RowsQuery.offset, RowsQuery.limit)
    /\ UNCHANGED <<initPc, cancelled, arrayRows, sort, isLoading, rows, totalRows, rowsClientRef,
                   currentSort, currentOffset, currentLimit, filter, rowsConnected,
                   countConnected, countPending, countInFlight, lastWindow, lastMerge, lastError>>

RemoveAt(seq, i) == [j \in 1..(Len(seq) - 1) |-> IF j < i THEN seq[j] ELSE seq[j + 1]]

\* The integers the transported texts denote.
BigIntOf == [t \in {"7"} |-> 7]

\* parseValue(raw, schema) for a wide-integer column: {display, sortValue};
\* a text that does not parse degrades to the raw text, annotated.
parseValue(raw) ==
    IF raw \in DOMAIN BigIntOf
      THEN [display |-> raw, sortValue |-> BigIntOf[raw], failed |-> FALSE]
      ELSE [display |-> raw, sortValue |-> 0, failed |-> TRUE]

\* A queryResult that leaves out the rows holding a cell that failed to parse.
queryResultSkipsFailed(data) ==
    SelectSeq([k \in 1..Len(data) |->
                  [oid |-> data[k].oid, s |-> data[k].s, f |-> data[k].f,
                   v |-> parseValue(data[k].v)]],
              LAMBDA r : ~r.v.failed)

\* queryResult(data): every raw row becomes one parsed row, each column value
\* run through parseValue and __oid copied; all are handed to onResult.
queryResult(data) ==
    [k \in 1..Len(data) |->
        [oid |-> data[k].oid, s |-> data[k].s, f |-> data[k].f,
         v |-> parseValue(data[k].v)]]

\* The offset queryResult hands to onResult.
ResultOffset(q) == currentOffset

\* queryResult(data) of the row client, then onResult(rows, offset) of
\* useTableData: mergeRows, setIsLoading(false).
RowsDeliver ==
    \E i \in 1..Len(rowsInFlight) :
        LET q == rowsInFlight[i]
            batch == queryResult(QueryRows(q.s, q.f, q.offset, q.limit))
        IN  /\ rows' = mergeRows(rows, ResultOffset(q), batch)
            /\ isLoading' = FALSE
            /\ lastMerge' = [kind |-> "merge", offset |-> ResultOffset(q),
                             queryOffset |-> q.offset]
            /\ rowsInFlight' = RemoveAt(rowsInFlight, i)
            /\ UNCHANGED <<initPc, cancelled, arrayRows, sort, totalRows, rowsClientRef,
                           currentSort, currentOffset, currentLimit, filter,
                           rowsConnected, rowsPending, countConnected, countPending,
                           countInFlight, lastWindow, lastIssued, lastError>>

\* client.query(filter) of the count client.
CountQuery == [kind |-> "count", f |-> filter]

CountIssue ==
    /\ countConnected
    /\ countPending
    /\ MayIssue(countInFlight)
    /\ countInFlight' = Append(countInFlight, CountQuery)
    /\ countPending' = FALSE
    /\ UNCHANGED <<initPc, cancelled, arrayRows, sort, isLoading, rows, totalRows, rowsClientRef,
                   currentSort, currentOffset, currentLimit, filter, rowsConnected,
                   rowsPending, rowsInFlight, countConnected, lastWindow, lastIssued,
                   lastMerge, lastError>>

\* A count as the database transports it, and SQL NULL.
BigInt(n) == [kind |-> "bigint", n |-> n]
SqlNull == [kind |-> "null"]

\* Number(v) of a transported count.
Number(v) == v.n

\* The result of the count query under filter f: one row, one column.
CountData(f) == <<[count |-> BigInt(TableCount(f))]>>

\* A count queryResult that reads the last row of the result.
countQueryResultLastRow(data) ==
    IF Len(data) = 0 THEN 0
    ELSE IF data[Len(data)].count = SqlNull THEN 0
    ELSE Number(data[Len(data)].count)

\* queryResult(data) of the count client: Number(arr[0]?.count ?? 0).
countQueryResult(data) ==
    IF Len(data) = 0 THEN 0
    ELSE IF data[1].count = SqlNull THEN 0
    ELSE Number(data[1].count)

\* queryResult(data) of the count client for the outstanding query i, then
\* onResult(count) of useTableData: setTotalRows.
CountDeliverData(i, data) ==
    LET n == countQueryResult(data)
    IN  /\ i \in 1..Len(countInFlight)
        /\ totalRows' = n
        /\ rows' = setTotalRowsRows(rows, n)
        /\ countInFlight' = RemoveAt(countInFlight, i)
        /\ UNCHANGED <<initPc, cancelled, arrayRows, sort, isLoading, rowsClientRef, currentSort,
                       currentOffset, currentLimit, filter, rowsConnected,
                       rowsPending, rowsInFlight, countConnected, countPending,
                       lastWindow, lastIssued, lastMerge, lastError>>

\* The database answers an outstanding count query.
CountDeliver ==
    \E i \in 1..Len(countInFlight) : CountDeliverData(i, CountData(countInFlight[i].f))

\* A failure path that asks the coordinator to run the query again.
RowsFailRetries ==
    \E i \in 1..Len(rowsInFlight) :
        /\ rowsInFlight' = RemoveAt(rowsInFlight, i)
        /\ lastError' = [kind |-> "error"]
        /\ rowsPending' = TRUE
        /\ UNCHANGED <<initPc, cancelled, arrayRows, sort, isLoading, rows, totalRows,
                       rowsClientRef, currentSort, currentOffset, currentLimit,
                       filter, rowsConnected, countConnected,
                       countPending, countInFlight, lastWindow, lastIssued,
                       lastMerge>>

\* A failure path that resets the data model.
RowsFailClears ==
    \E i \in 1..Len(rowsInFlight) :
        /\ rowsInFlight' = RemoveAt(rowsInFlight, i)
        /\ lastError' = [kind |-> "error"]
        /\ rows' = clear(rows)
        /\ UNCHANGED <<initPc, cancelled, arrayRows, sort, isLoading, totalRows,
                       rowsClientRef, currentSort, currentOffset, currentLimit,
                       filter, rowsConnected, rowsPending, countConnected,
                       countPending, countInFlight, lastWindow, lastIssued,
                       lastMerge>>

\* A row query fails: the coordinator hands the error to the client's
\* queryError, which createRowsClient does not override; queryResult and
\* onResult are not called.
RowsFail ==
    \E i \in 1..Len(rowsInFlight) :
        /\ rowsInFlight' = RemoveAt(rowsInFlight, i)
        /\ lastError' = [kind |-> "error"]
        /\ UNCHANGED <<initPc, cancelled, arrayRows, sort, isLoading, rows, totalRows,
                       rowsClientRef, currentSort, currentOffset, currentLimit,
                       filter, rowsConnected, rowsPending, countConnected,
                       countPending, countInFlight, lastWindow, lastIssued,
                       lastMerge>>

\* A count query fails: likewise for createCountClient.
CountFail ==
    \E i \in 1..Len(countInFlight) :
        /\ countInFlight' = RemoveAt(countInFlight, i)
        /\ lastError' = [kind |-> "error"]
        /\ UNCHANGED <<initPc, cancelled, arrayRows, sort, isLoading, rows, totalRows,
                       rowsClientRef, currentSort, currentOffset, currentLimit,
                       filter, rowsConnected, rowsPending, rowsInFlight,
                       countConnected, countPending, lastWindow, lastIssued,
                       lastMerge>>

\* ------------------------------------------------- claims: data binding

\* C1: after setSort, getRow never returns a row produced by a query that was
\* issued under a previous sort: every stored row was produced under the sort
\* the row client now holds.
C1_NoRowOfPreviousSort ==
    rowsClientRef => \A p \in DOMAIN rows : rows[p].s = currentSort

\* C2: the offset handed to mergeRows for a result batch equals the OFFSET of
\* the query that produced the batch.
C2_MergeOffsetIsQueryOffset ==
    lastMerge # NoQuery => lastMerge.offset = lastMerge.queryOffset

\* C3: the row client never has more than one query in flight, and once no
\* re-execution is waiting the query last issued is the one for the window
\* most recently passed to fetchWindow.
C3_OneInFlightLastWindowIssued ==
    /\ Len(rowsInFlight) <= 1
    /\ (rowsConnected /\ lastWindow # NoQuery /\ ~rowsPending)
          => lastIssued = lastWindow

\* C3 witness: fetchWindow was called for another window while a query is
\* outstanding; the request waits and no second query has started.
C3_Witness ==
    /\ Len(rowsInFlight) = 1
    /\ rowsPending
    /\ lastWindow # NoQuery
    /\ rowsInFlight[1].offset # lastWindow.offset

\* C4: a change of the row client's sort sets its fetch window offset to 0.
C4_SortChangeResetsOffset ==
    [][currentSort' # currentSort => currentOffset' = 0]_vars

\* The binding is idle: every requested query has been issued and delivered.
Quiescent ==
    /\ rowsConnected
    /\ ~rowsPending
    /\ ~countPending
    /\ Len(rowsInFlight) = 0
    /\ Len(countInFlight) = 0

\* C6: once both clients have been re-queried after a filter update, getRow
\* returns no row delivered under a previous filter predicate, at any position.
C6_NoRowOfPreviousFilter ==
    Quiescent => \A p \in DOMAIN rows : rows[p].f = filter

\* C7: every position holding a row is in [0, totalRows).
C7_PositionsBelowTotalRows ==
    \A p \in DOMAIN rows : 0 <= p /\ p < totalRows

\* ------------------------------------------------- scroll computations

FloorDiv(a, b) == a \div b
CeilDiv(a, b) == (a + b - 1) \div b

getTotalHeight(n, rh) == n * rh

\* start = max(0, floor(scrollTop / rowHeight)),
\* end = min(totalRows, ceil((scrollTop + viewportHeight) / rowHeight)).
computeVisibleRange(st, vh, rh, n) ==
    [start |-> Max(0, FloorDiv(st, rh)), end |-> Min(n, CeilDiv(st + vh, rh))]

computeRenderRange(visible, n, overscan) ==
    [start |-> Max(0, visible.start - overscan),
     end |-> Min(n, visible.end + overscan)]

\* A new window is computed iff none was requested yet or the render range is
\* not contained in the requested one; otherwise the result is null (NoQuery).
computeFetchWindow(st, vh, rh, n, current, overscan) ==
    LET render == computeRenderRange(computeVisibleRange(st, vh, rh, n), n, overscan)
        viewportRows == CeilDiv(vh, rh)
        contained == /\ current # NoQuery
                     /\ current.offset <= render.start
                     /\ render.end <= current.offset + current.limit
        band == Max(render.end - render.start, 3 * viewportRows) * PadFactor
        mid == (render.start + render.end) \div 2
        lo == Max(0, mid - (band \div 2))
        offset == FloorDiv(lo, viewportRows) * viewportRows
        hi == Min(n, lo + band)
    IN  IF contained THEN NoQuery ELSE FetchWindow(offset, Max(1, hi - offset))

maxScrollTop == Max(0, getTotalHeight(totalRows, rowHeight) - viewportHeight)
maxScrollLeft == Max(0, TotalWidth - ViewportWidth)

\* A clampScrollLeft that keeps only the lower bound.
clampScrollLeftLowerOnly(value) == Max(0, value)

clampScrollLeft(value) == Max(0, Min(maxScrollLeft, value))

\* ------------------------------------------------------- useTableScroll

\* An id requestAnimationFrame has not handed to an outstanding callback.
FreeId == CHOOSE i \in 1..MaxFrames : \A k \in 1..Len(frames) : frames[k].id # i

\* The updateScroll closure of the current render.
Closure(id) == [id |-> id, totalRows |-> totalRows, rowHeight |-> rowHeight]

\* requestAnimationFrame(updateScroll) without looking at rafIdRef.
scheduleFrameUnguarded ==
    /\ Len(frames) < MaxFrames
    /\ rafIdRef' = FreeId
    /\ frames' = Append(frames, Closure(FreeId))
    /\ scheduledSince' = Min(2, scheduledSince + 1)

\* if (rafIdRef.current == null) rafIdRef.current = requestAnimationFrame(updateScroll)
scheduleFrame ==
    IF rafIdRef = 0
      THEN /\ Len(frames) < MaxFrames
           /\ rafIdRef' = FreeId
           /\ frames' = Append(frames, Closure(FreeId))
           /\ scheduledSince' = Min(2, scheduledSince + 1)
      ELSE UNCHANGED <<rafIdRef, frames, scheduledSince>>

\* What no scroll handler writes.
handlerFrame ==
    UNCHANGED <<dataVars, mounted, rowHeight, viewportHeight, fetchWindowRef,
                visibleRowRange, rangeObject, scrollTop, scrollLeft>>

\* handleWheelRef.current(e)
handleWheel(deltaX, deltaY) ==
    /\ mounted
    /\ scrollTopRef' = Max(0, Min(maxScrollTop, scrollTopRef + deltaY))
    /\ scrollLeftRef' = Max(0, Min(maxScrollLeft, scrollLeftRef + deltaX))
    /\ scheduleFrame
    /\ inputsSince' = Min(2, inputsSince + 1)
    /\ UNCHANGED lastTouchRef
    /\ handlerFrame

Touch(x, y) == [kind |-> "touch", x |-> x, y |-> y]

\* handleTouchStartRef.current(e)
handleTouchStart(touches, x, y) ==
    /\ mounted
    /\ lastTouchRef' = IF touches # 1 THEN lastTouchRef ELSE Touch(x, y)
    /\ UNCHANGED <<scrollTopRef, scrollLeftRef, rafIdRef, frames, inputsSince,
                   scheduledSince>>
    /\ handlerFrame

\* A touchmove handler that requests a frame whether or not an offset changed.
handleTouchMoveAlwaysSchedules(touches, x, y) ==
    /\ mounted
    /\ IF touches # 1
         THEN UNCHANGED <<lastTouchRef, scrollTopRef, scrollLeftRef, rafIdRef,
                          frames, inputsSince, scheduledSince>>
         ELSE IF lastTouchRef = NoQuery
           THEN /\ lastTouchRef' = Touch(x, y)
                /\ UNCHANGED <<scrollTopRef, scrollLeftRef, rafIdRef, frames,
                               inputsSince, scheduledSince>>
           ELSE /\ lastTouchRef' = Touch(x, y)
                /\ scrollTopRef' =
                       Max(0, Min(maxScrollTop, scrollTopRef - (y - lastTouchRef.y)))
                /\ scrollLeftRef' =
                       Max(0, Min(maxScrollLeft, scrollLeftRef - (x - lastTouchRef.x)))
                /\ scheduleFrame
                /\ inputsSince' = Min(2, inputsSince + 1)
    /\ handlerFrame

\* handleTouchMoveRef.current(e)
handleTouchMove(touches, x, y) ==
    /\ mounted
    /\ IF touches # 1
         THEN UNCHANGED <<lastTouchRef, scrollTopRef, scrollLeftRef, rafIdRef,
                          frames, inputsSince, scheduledSince>>
         ELSE IF lastTouchRef = NoQuery
           THEN /\ lastTouchRef' = Touch(x, y)
                /\ UNCHANGED <<scrollTopRef, scrollLeftRef, rafIdRef, frames,
                               inputsSince, scheduledSince>>
           ELSE LET deltaX == x - lastTouchRef.x
                    deltaY == y - lastTouchRef.y
                    newTop == Max(0, Min(maxScrollTop, scrollTopRef - deltaY))
                    newLeft == Max(0, Min(maxScrollLeft, scrollLeftRef - deltaX))
                    didScroll == newTop # scrollTopRef \/ newLeft # scrollLeftRef
                IN  /\ lastTouchRef' = Touch(x, y)
                    /\ scrollTopRef' = newTop
                    /\ scrollLeftRef' = newLeft
                    /\ IF didScroll
                         THEN /\ scheduleFrame
                              /\ inputsSince' = Min(2, inputsSince + 1)
                         ELSE UNCHANGED <<rafIdRef, frames, inputsSince,
                                          scheduledSince>>
    /\ handlerFrame

\* handleTouchEndRef.current(), on touchend and touchcancel
handleTouchEnd ==
    /\ mounted
    /\ lastTouchRef' = NoQuery
    /\ UNCHANGED <<scrollTopRef, scrollLeftRef, rafIdRef, frames, inputsSince,
                   scheduledSince>>
    /\ handlerFrame

scrollToRow(index) ==
    /\ mounted
    /\ scrollTopRef' = Max(0, index * rowHeight)
    /\ scheduleFrame
    /\ inputsSince' = Min(2, inputsSince + 1)
    /\ UNCHANGED <<scrollLeftRef, lastTouchRef>>
    /\ handlerFrame

scrollToTop ==
    /\ mounted
    /\ scrollTopRef' = 0
    /\ scheduleFrame
    /\ inputsSince' = Min(2, inputsSince + 1)
    /\ UNCHANGED <<scrollLeftRef, lastTouchRef>>
    /\ handlerFrame

scrollToX(x) ==
    /\ mounted
    /\ scrollLeftRef' = clampScrollLeft(x)
    /\ scheduleFrame
    /\ inputsSince' = Min(2, inputsSince + 1)
    /\ UNCHANGED <<scrollTopRef, lastTouchRef>>
    /\ handlerFrame

\* A setter that stores the new range object whatever it holds.
setVisibleRowRangeAlways(visible) ==
    /\ visibleRowRange' = visible
    /\ rangeObject' = 1 - rangeObject

\* setVisibleRowRange(prev => same start and end ? prev : visible): the state
\* keeps the object it holds when the range is the same, and takes the new
\* object otherwise.
setVisibleRowRange(visible) ==
    /\ visibleRowRange' = visible
    /\ rangeObject' =
          IF visibleRowRange.start = visible.start /\ visibleRowRange.end = visible.end
            THEN rangeObject
            ELSE 1 - rangeObject

\* An updateScroll that computes from the published scrollTop state, which
\* lags the internal offset, instead of reading scrollTopRef.
updateScrollFromState(n, rh) ==
    /\ rafIdRef' = 0
    /\ inputsSince' = 0
    /\ scheduledSince' = 0
    /\ IF viewportHeight = 0 \/ rh = 0
         THEN UNCHANGED <<visibleRowRange, rangeObject, scrollTop, scrollLeft, fetchWindowRef,
                          setWindowVars>>
         ELSE LET newWindow == computeFetchWindow(scrollTop, viewportHeight, rh,
                                                  n, fetchWindowRef, Overscan)
              IN  /\ IF mounted
                       THEN /\ setVisibleRowRange(
                                 computeVisibleRange(scrollTop, viewportHeight, rh, n))
                            /\ scrollTop' = scrollTopRef
                            /\ scrollLeft' = scrollLeftRef
                       ELSE UNCHANGED <<visibleRowRange, rangeObject, scrollTop, scrollLeft>>
                  /\ IF newWindow # NoQuery
                       THEN /\ fetchWindowRef' = newWindow
                            /\ setWindow(newWindow.offset, newWindow.limit)
                       ELSE UNCHANGED <<fetchWindowRef, setWindowVars>>

\* An updateScroll whose early return comes before the frame flag is cleared.
updateScrollReturnsFirst(n, rh) ==
    /\ inputsSince' = 0
    /\ scheduledSince' = 0
    /\ IF viewportHeight = 0 \/ rh = 0
         THEN UNCHANGED <<rafIdRef, visibleRowRange, rangeObject, scrollTop, scrollLeft,
                          fetchWindowRef, setWindowVars>>
         ELSE LET newWindow == computeFetchWindow(scrollTopRef, viewportHeight, rh,
                                                  n, fetchWindowRef, Overscan)
              IN  /\ rafIdRef' = 0
                  /\ IF mounted
                       THEN /\ setVisibleRowRange(
                                 computeVisibleRange(scrollTopRef, viewportHeight, rh, n))
                            /\ scrollTop' = scrollTopRef
                            /\ scrollLeft' = scrollLeftRef
                       ELSE UNCHANGED <<visibleRowRange, rangeObject, scrollTop, scrollLeft>>
                  /\ IF newWindow # NoQuery
                       THEN /\ fetchWindowRef' = newWindow
                            /\ setWindow(newWindow.offset, newWindow.limit)
                       ELSE UNCHANGED <<fetchWindowRef, setWindowVars>>

\* updateScroll() of the render that saw totalRows n and rowHeight rh. State
\* setters do nothing once the hook is unmounted; setWindow is still called.
updateScroll(n, rh) ==
    /\ rafIdRef' = 0
    /\ inputsSince' = 0
    /\ scheduledSince' = 0
    /\ IF viewportHeight = 0 \/ rh = 0
         THEN UNCHANGED <<visibleRowRange, rangeObject, scrollTop, scrollLeft, fetchWindowRef,
                          setWindowVars>>
         ELSE LET newWindow == computeFetchWindow(scrollTopRef, viewportHeight, rh,
                                                  n, fetchWindowRef, Overscan)
              IN  /\ IF mounted
                       THEN /\ setVisibleRowRange(
                                 computeVisibleRange(scrollTopRef, viewportHeight, rh, n))
                            /\ scrollTop' = scrollTopRef
                            /\ scrollLeft' = scrollLeftRef
                       ELSE UNCHANGED <<visibleRowRange, rangeObject, scrollTop, scrollLeft>>
                  /\ IF newWindow # NoQuery
                       THEN /\ fetchWindowRef' = newWindow
                            /\ setWindow(newWindow.offset, newWindow.limit)
                       ELSE UNCHANGED <<fetchWindowRef, setWindowVars>>

\* What updateScroll and its callers leave alone on the data side.
dataRest == <<initPc, cancelled, arrayRows, sort, isLoading, rows, rowsClientRef, currentSort, filter,
              rowsConnected, rowsInFlight, countConnected, countPending,
              countInFlight, lastIssued, lastMerge, lastError>>

\* The oldest outstanding animation-frame callback runs.
Tick ==
    /\ Len(frames) > 0
    /\ frames' = Tail(frames)
    /\ updateScroll(Head(frames).totalRows, Head(frames).rowHeight)
    /\ UNCHANGED <<dataRest, totalRows, mounted, rowHeight, viewportHeight,
                   scrollTopRef, scrollLeftRef, lastTouchRef>>

\* The effect "trigger initial fetch when data becomes available", run after a
\* render in which rowHeight, totalRows or updateScroll changed: it calls the
\* new updateScroll directly.
initialFetchEffect(n, rh) ==
    IF rh > 0 /\ n > 0
      THEN updateScroll(n, rh)
      ELSE UNCHANGED <<rafIdRef, inputsSince, scheduledSince, visibleRowRange, rangeObject,
                       scrollTop, scrollLeft, fetchWindowRef, setWindowVars>>

\* A count result changes data.totalRows: setTotalRows, re-render, effects.
TotalRowsChanged(n) ==
    /\ mounted
    /\ n # totalRows
    /\ totalRows' = n
    /\ rows' = setTotalRowsRows(rows, n)
    /\ initialFetchEffect(n, rowHeight)
    /\ UNCHANGED <<initPc, cancelled, arrayRows, sort, isLoading, rowsClientRef, currentSort, filter,
                   rowsConnected, rowsInFlight, countConnected, countPending,
                   countInFlight, lastIssued, lastMerge, lastError>>
    /\ UNCHANGED <<mounted, rowHeight, viewportHeight, scrollTopRef, scrollLeftRef,
                   frames, lastTouchRef>>

CancelFrame(id) == SelectSeq(frames, LAMBDA f : f.id # id)

\* Unmount: the listeners are removed and the cleanup cancels the frame whose id
\* rafIdRef holds. The container element may or may not stay attached to the
\* ref the caller owns.
Unmount ==
    /\ mounted
    /\ mounted' = FALSE
    /\ frames' = IF rafIdRef # 0 THEN CancelFrame(rafIdRef) ELSE frames
    /\ \E detached \in BOOLEAN :
          viewportHeight' = IF detached THEN 0 ELSE viewportHeight
    /\ UNCHANGED <<dataVars, rowHeight, scrollTopRef, scrollLeftRef, rafIdRef,
                   fetchWindowRef, lastTouchRef, visibleRowRange, rangeObject, scrollTop,
                   scrollLeft, inputsSince, scheduledSince>>

\* setSort of the data handle while the table is mounted.
SortChanged(s) ==
    /\ mounted
    /\ setSort(s)
    /\ UNCHANGED scrollVars

\* ------------------------------------------------------------------ Spec

\* The data binding alone: the scroll scheduler does not move.
Next ==
    \/ InitImported /\ UNCHANGED scrollVars
    \/ InitSchemaFetched /\ UNCHANGED scrollVars
    \/ InitSchemaFailed /\ UNCHANGED scrollVars
    \/ InitRowsConnected /\ UNCHANGED scrollVars
    \/ \E s \in Sorts : setSort(s) /\ UNCHANGED scrollVars
    \/ \E o \in WindowOffsets, l \in WindowLimits :
          SetWindowCall(o, l) /\ UNCHANGED scrollVars
    \/ \E f \in Filters : FilterUpdate(f) /\ UNCHANGED scrollVars
    \/ RowsIssue /\ UNCHANGED scrollVars
    \/ RowsDeliver /\ UNCHANGED scrollVars
    \/ CountIssue /\ UNCHANGED scrollVars
    \/ CountDeliver /\ UNCHANGED scrollVars

Spec == Init /\ [][Next]_vars

\* ------------------------------------- binding life cycle and failures

\* What a binding that loaded its first page and was then cleaned up leaves in
\* the data model, which every effect run shares through modelRef.
PreviousRows ==
    mergeRows(NoRows, 0, queryResult(QueryRows(NullSort, "all", 0, PageSize)))

\* The start of an effect run: of the first one, or of the one that follows the
\* cleanup of an idle binding, whose disconnected clients the refs still hold
\* and whose rows and count the model still holds.
InitBinding ==
    /\ initPc = "import"
    /\ cancelled = FALSE
    /\ arrayRows = NoQuery
    /\ sort = NullSort
    /\ isLoading = TRUE
    /\ rows \in {NoRows, PreviousRows}
    /\ totalRows = IF rows = NoRows THEN 0 ELSE MaxRows
    /\ rowsClientRef = (rows # NoRows)
    /\ currentSort = NullSort
    /\ currentOffset = 0
    /\ currentLimit = IF rows = NoRows THEN DefaultLimit ELSE PageSize
    /\ filter = "all"
    /\ rowsConnected = FALSE
    /\ rowsPending = FALSE
    /\ rowsInFlight = <<>>
    /\ countConnected = FALSE
    /\ countPending = FALSE
    /\ countInFlight = <<>>
    /\ lastWindow = NoQuery
    /\ lastIssued = NoQuery
    /\ lastMerge = NoQuery
    /\ lastError = NoQuery
    /\ InitScrollVars

NextBinding ==
    \/ Next
    \/ Cleanup /\ UNCHANGED scrollVars

SpecBinding == InitBinding /\ [][NextBinding]_vars

\* The data binding over a database whose queries may fail.
NextFail ==
    \/ Next
    \/ RowsFail /\ UNCHANGED scrollVars
    \/ CountFail /\ UNCHANGED scrollVars

SpecFail == Init /\ [][NextFail]_vars

\* C11: after the cleanup of a binding has run, neither its row client nor its
\* count client is connected to the coordinator, wherever init() was suspended
\* when the cleanup ran.
C11_NoClientConnectedAfterCleanup ==
    cancelled => ~rowsConnected /\ ~countConnected

C16_SchemaFailureLeavesNothing ==
    (initPc = "failed" /\ ~cancelled) =>
        /\ rows = NoRows
        /\ totalRows = 0
        /\ ~rowsConnected
        /\ ~countConnected

\* C17: a setWindow call leaves the row client with a window in the valid
\* range: offset >= 0, limit >= 1 and offset below totalRows (0 when the table
\* is empty), whatever window the call was given.
C17_SetWindowClampsToValidRange ==
    [][lastWindow' # lastWindow =>
          /\ currentOffset' >= 0
          /\ currentLimit' >= 1
          /\ currentOffset' < Max(1, totalRows)]_vars

\* ------------------------------------------------------ the row query

\* The sort values handed to setSort when the query text is followed: null,
\* one field, an empty list, and a list of two fields of mixed direction.
SortValues ==
    {NullSort, SortField("a", TRUE), SortList(<<>>),
     SortList(<<SortField("a", TRUE), SortField("b", FALSE)>>)}

\* A connected binding whose sort and fetch window change between queries.
InitQuery ==
    /\ initPc = "ready"
    /\ cancelled = FALSE
    /\ arrayRows = NoQuery
    /\ sort = NullSort
    /\ isLoading = TRUE
    /\ rows = NoRows
    /\ totalRows = 0
    /\ rowsClientRef = TRUE
    /\ currentSort = NullSort
    /\ currentOffset = 0
    /\ currentLimit = DefaultLimit
    /\ filter = "all"
    /\ rowsConnected = TRUE
    /\ rowsPending = TRUE
    /\ rowsInFlight = <<>>
    /\ countConnected = TRUE
    /\ countPending = TRUE
    /\ countInFlight = <<>>
    /\ lastWindow = NoQuery
    /\ lastIssued = NoQuery
    /\ lastMerge = NoQuery
    /\ lastError = NoQuery
    /\ InitScrollVars

NextQuery ==
    \/ \E s \in SortValues : setSort(s) /\ UNCHANGED scrollVars
    \/ \E o \in WindowOffsets, l \in WindowLimits :
          SetWindowCall(o, l) /\ UNCHANGED scrollVars
    \/ RowsIssue /\ UNCHANGED scrollVars
    \/ RowsDeliver /\ UNCHANGED scrollVars
    \/ CountIssue /\ UNCHANGED scrollVars
    \/ CountDeliver /\ UNCHANGED scrollVars

SpecQuery == InitQuery /\ [][NextQuery]_vars

\* The ordering a sort asks for: its fields in order, each with its direction.
ExpectedOrder(sortValue) ==
    IF sortValue = NullSort THEN <<>>
    ELSE IF sortValue.kind = "field"
      THEN <<[column |-> sortValue.column, desc |-> sortValue.desc]>>
      ELSE [i \in 1..Len(sortValue.fields) |->
              [column |-> sortValue.fields[i].column,
               desc |-> sortValue.fields[i].desc]]

\* C21: every row query issued carries LIMIT currentLimit and OFFSET
\* currentOffset, and its __oid window function and its ORDER BY carry the same
\* ordering: the sort's fields in order with their directions, none for a null
\* or empty sort.
C21_QueryCarriesWindowAndOrdering ==
    [][Len(rowsInFlight') > Len(rowsInFlight) =>
          LET q == rowsInFlight'[Len(rowsInFlight')]
          IN  /\ q.limit = currentLimit
              /\ q.offset = currentOffset
              /\ q.oidOrder = ExpectedOrder(currentSort)
              /\ q.orderBy = ExpectedOrder(currentSort)]_vars

\* C21 witness: a query sorted by two fields for a window off the top is in
\* flight.
C21_Witness ==
    /\ Len(rowsInFlight) = 1
    /\ rowsInFlight[1].offset > 0
    /\ Len(rowsInFlight[1].orderBy) = 2
    /\ rowsInFlight[1].oidOrder = rowsInFlight[1].orderBy

C5_SortChangeScrollsToTop ==
    [][sort' # sort => scrollTopRef' = 0]_vars

C9_AtMostOneFrameOutstanding ==
    Len(frames) <= 1

\* C10: after unmount no frame is left to run.
C10_NoFrameAfterUnmount ==
    ~mounted => Len(frames) = 0

RanUpdateScroll ==
    \/ Tick
    \/ \E n \in 1..ScrollRows : TotalRowsChanged(n)

\* The render range of the scroll offset st over n rows: visible plus overscan.
RenderRange(st, n) ==
    computeRenderRange(computeVisibleRange(st, viewportHeight, rowHeight, n), n,
                       Overscan)

Contains(window, range) ==
    /\ window # NoQuery
    /\ window.offset <= range.start
    /\ range.end <= window.offset + window.limit

\* C13: a run of updateScroll calls setWindow if and only if no window was
\* requested yet or the current render range is not contained in the window
\* last requested; the window it records then contains the render range and
\* is the one handed to setWindow.
C13_SetWindowIffNotContained ==
    [][RanUpdateScroll =>
          LET render == RenderRange(scrollTopRef, totalRows')
          IN  /\ (lastWindow' # lastWindow) <=> ~Contains(fetchWindowRef, render)
              /\ (lastWindow' # lastWindow) =>
                    /\ fetchWindowRef' = lastWindow'
                    /\ Contains(fetchWindowRef', render)]_vars

\* C14: the window handed to setWindow is computed from the scroll offset
\* current when updateScroll runs, never from an earlier one; and once no frame
\* is outstanding the window last requested is the one for the last offset.
C14_FetchWindowFromCurrentOffset ==
    /\ [][lastWindow' # lastWindow =>
             \E n \in 0..ScrollRows :
                lastWindow' = computeFetchWindow(scrollTopRef', viewportHeight',
                                                 rowHeight', n, fetchWindowRef,
                                                 Overscan)]_vars
    /\ []((mounted /\ Len(frames) = 0 /\ totalRows > 0 /\ lastWindow # NoQuery)
            => Contains(lastWindow, RenderRange(scrollTopRef, totalRows)))

\* C14 witness: the window last requested is one for an offset further down
\* the table, and no frame is outstanding.
C14_Witness ==
    /\ mounted
    /\ Len(frames) = 0
    /\ scrollTopRef > 0
    /\ lastWindow # NoQuery
    /\ lastWindow.offset > 0
    /\ Contains(lastWindow, RenderRange(scrollTopRef, totalRows))

\* The scroll scheduler over a connected data binding whose first queries are
\* requested; count results reach it as changes of totalRows.
InitScroll ==
    /\ initPc = "ready"
    /\ cancelled = FALSE
    /\ arrayRows = NoQuery
    /\ sort = NullSort
    /\ isLoading = TRUE
    /\ rows = NoRows
    /\ totalRows = 0
    /\ rowsClientRef = TRUE
    /\ currentSort = NullSort
    /\ currentOffset = 0
    /\ currentLimit = DefaultLimit
    /\ filter = "all"
    /\ rowsConnected = TRUE
    /\ rowsPending = TRUE
    /\ rowsInFlight = <<>>
    /\ countConnected = TRUE
    /\ countPending = TRUE
    /\ countInFlight = <<>>
    /\ lastWindow = NoQuery
    /\ lastIssued = NoQuery
    /\ lastMerge = NoQuery
    /\ lastError = NoQuery
    /\ InitScrollVars

WheelDeltas == {<<0, WheelStep>>, <<0, -WheelStep>>, <<1, 0>>, <<-1, 0>>}
TouchPoints == {<<0, 0>>, <<1, 1>>}
RowIndexes == {-1, 1, MaxRows}

NextScroll ==
    \/ \E d \in WheelDeltas : handleWheel(d[1], d[2])
    \/ \E n \in {1, 2}, p \in TouchPoints : handleTouchStart(n, p[1], p[2])
    \/ \E n \in {1, 2}, p \in TouchPoints : handleTouchMove(n, p[1], p[2])
    \/ handleTouchEnd
    \/ \E i \in RowIndexes : scrollToRow(i)
    \/ scrollToTop
    \/ \E x \in {0, TotalWidth} : scrollToX(x)
    \/ Tick
    \/ \E f \in Filters : TotalRowsChanged(TableCount(f))
    \/ \E s \in Sorts : SortChanged(s)
    \/ Unmount

SpecScroll == InitScroll /\ [][NextScroll]_vars

\* The scheduler scrolled vertically over a table of several fetch window
\* bands, whose count is ScrollRows or, filtered, half of it.
ScrollCounts == {ScrollRows \div 2, ScrollRows}
FetchRowIndexes == {-1, 1, ScrollRows}

NextFetch ==
    \/ \E dy \in {FetchStep, -FetchStep} : handleWheel(0, dy)
    \/ \E i \in FetchRowIndexes : scrollToRow(i)
    \/ scrollToTop
    \/ Tick
    \/ \E n \in ScrollCounts : TotalRowsChanged(n)
    \/ Unmount

SpecFetch == InitScroll /\ [][NextFetch]_vars
\* ------------------------------------- claims: programmatic scroll, ranges

\* C18: scrollToRow(i) sets the scroll offset to i * rowHeight clamped to
\* [0, max(0, totalHeight - viewportHeight)] and leaves a frame scheduled.
C18_ScrollToRowClamps ==
    [][\A i \in RowIndexes \cup FetchRowIndexes :
          scrollToRow(i) =>
              /\ scrollTopRef' = Max(0, Min(maxScrollTop, i * rowHeight))
              /\ Len(frames') > 0]_vars

\* C19: the horizontal offset, internal and published, stays in
\* [0, max(0, totalWidth - viewportWidth)] under wheel inputs, touch moves and
\* scrollToX; scrollToTop sets the vertical offset to 0 and leaves a frame
\* scheduled.
C19_ScrollLeftInRange ==
    /\ [](/\ 0 <= scrollLeftRef /\ scrollLeftRef <= maxScrollLeft
          /\ 0 <= scrollLeft /\ scrollLeft <= maxScrollLeft)
    /\ [][scrollToTop => (scrollTopRef' = 0 /\ Len(frames') > 0)]_vars

\* C19 witness: the table was scrolled to its right edge and a tick published
\* that offset.
C19_Witness ==
    /\ maxScrollLeft > 0
    /\ scrollLeftRef = maxScrollLeft
    /\ scrollLeft = maxScrollLeft

\* C20: the visible range the scheduler computes and publishes satisfies
\* 0 <= start <= end, also when the scroll offset lies beyond the end of the
\* content.
C20_VisibleRangeOrdered ==
    /\ 0 <= visibleRowRange.start
    /\ visibleRowRange.start <= visibleRowRange.end

\* --------------------------------------- the table: scrolling and loading

\* Retention radius as a multiple of the fetch limit.
RetentionFactor == 2

\* [max(0, start - R), min(totalRows, end + R)] around the visible range.
computeRetentionRange(visible, n, radius) ==
    [start |-> Max(0, visible.start - radius), end |-> Min(n, visible.end + radius)]

\* The retention range current in this state.
RetentionRange ==
    computeRetentionRange(visibleRowRange, totalRows, RetentionFactor * currentLimit)

\* The scheduler bound to a connected data handle over the long table: the
\* user jumps between the top and the bottom while row queries are issued and
\* delivered, and the sort may change.
InitTable ==
    /\ initPc = "ready"
    /\ cancelled = FALSE
    /\ arrayRows = NoQuery
    /\ sort = NullSort
    /\ isLoading = TRUE
    /\ rows = NoRows
    /\ totalRows = 0
    /\ rowsClientRef = TRUE
    /\ currentSort = NullSort
    /\ currentOffset = 0
    /\ currentLimit = DefaultLimit
    /\ filter = "long"
    /\ rowsConnected = TRUE
    /\ rowsPending = TRUE
    /\ rowsInFlight = <<>>
    /\ countConnected = TRUE
    /\ countPending = TRUE
    /\ countInFlight = <<>>
    /\ lastWindow = NoQuery
    /\ lastIssued = NoQuery
    /\ lastMerge = NoQuery
    /\ lastError = NoQuery
    /\ InitScrollVars

TableRowIndexes == {0, ScrollRows - 1}

NextTable ==
    \/ \E i \in TableRowIndexes : scrollToRow(i)
    \/ Tick
    \/ TotalRowsChanged(TableCount(filter))
    \/ RowsIssue /\ UNCHANGED scrollVars
    \/ RowsDeliver /\ UNCHANGED scrollVars
    \/ \E s \in Sorts : SortChanged(s)

SpecTable == InitTable /\ [][NextTable]_vars

\* C23: once the count is known, a row-query result whose offset lies outside
\* the retention range current when it is delivered is dropped: the stored
\* rows do not change.
C23_LateResultOutsideRetentionDropped ==
    [][(/\ totalRows > 0
        /\ Len(rowsInFlight) = 1
        /\ Len(rowsInFlight') = 0
        /\ ~(/\ RetentionRange.start <= rowsInFlight[1].offset
             /\ rowsInFlight[1].offset < RetentionRange.end))
          => rows' = rows]_vars

\* C24: after a run of updateScroll and after each merge the data model holds
\* no row outside the retention range around the visible range.
C24_NoRowOutsideRetention ==
    [][(/\ totalRows' > 0
        /\ \/ RanUpdateScroll
           \/ Len(rowsInFlight') < Len(rowsInFlight))
          => \A p \in DOMAIN rows' :
                RetentionRange'.start <= p /\ p < RetentionRange'.end]_vars

\* ---------------------------------------------------------------- array mode

\* Largest length of the array handed to the hook as `rows`.
MaxArrayLen == 3

\* Stands for the value of a column a row does not have, `undefined`; the
\* numbers in the rows are positive.
Undefined == 0 - 1

\* Rows of an array; the last one has no column `a`.
ArrayRowSet == {[a |-> 1, b |-> 2], [a |-> 2, b |-> 1], [a |-> Undefined, b |-> 1]}

Arrays == UNION {[1..n -> ArrayRowSet] : n \in 0..MaxArrayLen}

ArrayProp(arr) == [kind |-> "array", rows |-> arr]

\* The array effect without its setIsLoading(false).
ArrayBindKeepsLoading(arr) ==
    /\ arrayRows' = ArrayProp(arr)
    /\ rows' = mergeRows(setTotalRowsRows(clear(rows), Len(arr)), 0, arr)
    /\ totalRows' = Len(arr)
    /\ UNCHANGED <<initPc, cancelled, sort, isLoading, rowsClientRef, currentSort,
                   currentOffset, currentLimit, filter, rowsConnected, rowsPending,
                   rowsInFlight, countConnected, countPending, countInFlight,
                   lastWindow, lastIssued, lastMerge, lastError>>

\* The array effect of useTableData, run after a render whose `rows` option is
\* arr: the model is cleared, sized and filled from position 0, and loading
\* ends. The Mosaic effect of the same render returns at its first line.
ArrayBind(arr) ==
    /\ arrayRows' = ArrayProp(arr)
    /\ rows' = mergeRows(setTotalRowsRows(clear(rows), Len(arr)), 0, arr)
    /\ totalRows' = Len(arr)
    /\ isLoading' = FALSE
    /\ UNCHANGED <<initPc, cancelled, sort, rowsClientRef, currentSort,
                   currentOffset, currentLimit, filter, rowsConnected, rowsPending,
                   rowsInFlight, countConnected, countPending, countInFlight,
                   lastWindow, lastIssued, lastMerge, lastError>>

\* x < y of JavaScript on numbers and `undefined`: a comparison with
\* undefined is false.
jsLess(x, y) == x # Undefined /\ y # Undefined /\ x < y

\* The comparator of the client-side sort, from field k on.
RECURSIVE compareRows(_, _, _, _)
compareRows(a, b, fields, k) ==
    IF k > Len(fields) THEN 0
    ELSE LET field == fields[k]
             aVal == a[field.column]
             bVal == b[field.column]
         IN  IF jsLess(aVal, bVal) THEN (IF field.desc THEN 1 ELSE -1)
             ELSE IF jsLess(bVal, aVal) THEN (IF field.desc THEN -1 ELSE 1)
             ELSE compareRows(a, b, fields, k + 1)

\* Array.isArray(newSort) ? newSort : [newSort]
sortFieldsOf(newSort) == IF newSort.kind = "list" THEN newSort.fields ELSE <<newSort>>

\* Whether the comparator is a consistent comparison function over the
\* elements of arr: rows it calls equal form classes.
consistentComparator(arr, fields) ==
    \A i, j, k \in 1..Len(arr) :
       (compareRows(arr[i], arr[j], fields, 1) = 0
          /\ compareRows(arr[j], arr[k], fields, 1) = 0)
       => compareRows(arr[i], arr[k], fields, 1) = 0

\* The stable sort of arr under the comparator.
sortedRows(arr, fields) ==
    LET n == Len(arr)
        p == CHOOSE q \in Permutations(1..n) :
                \A i, j \in 1..n :
                   i < j => LET c == compareRows(arr[q[i]], arr[q[j]], fields, 1)
                            IN  c < 0 \/ (c = 0 /\ q[i] < q[j])
    IN  [i \in 1..n |-> arr[p[i]]]

\* What [...arrayRows].sort(comparator) may leave in the copy: the stable sort
\* when the comparator is consistent, and an order the engine chooses when it
\* is not. Without a sort the copy is left as it is.
sortResults(arr, newSort) ==
    IF newSort = NullSort THEN {arr}
    ELSE IF consistentComparator(arr, sortFieldsOf(newSort))
      THEN {sortedRows(arr, sortFieldsOf(newSort))}
      ELSE {[i \in 1..Len(arr) |-> arr[q[i]]] : q \in Permutations(1..Len(arr))}

\* setSort(newSort), array mode: the sort state is set and the model is
\* refilled with a sorted copy of the array.
ArraySetSort(newSort) ==
    /\ arrayRows # NoQuery
    /\ sort' = newSort
    /\ \E sorted \in sortResults(arrayRows.rows, newSort) :
          /\ rows' = mergeRows(setTotalRowsRows(clear(rows), Len(sorted)), 0, sorted)
          /\ totalRows' = Len(sorted)
    /\ UNCHANGED <<initPc, cancelled, arrayRows, isLoading, rowsClientRef,
                   currentSort, currentOffset, currentLimit, filter, rowsConnected,
                   rowsPending, rowsInFlight, countConnected, countPending,
                   countInFlight, lastWindow, lastIssued, lastMerge, lastError>>

ArraySortValues == SortValues \cup {SortField("b", FALSE)}

\* A hook rendered with `rows` and no table: nothing is bound before the first
\* effect runs, and the Mosaic init never starts.
InitArray ==
    /\ initPc = "idle"
    /\ cancelled = FALSE
    /\ arrayRows = NoQuery
    /\ sort = NullSort
    /\ isLoading = TRUE
    /\ rows = NoRows
    /\ totalRows = 0
    /\ rowsClientRef = FALSE
    /\ currentSort = NullSort
    /\ currentOffset = 0
    /\ currentLimit = DefaultLimit
    /\ filter = "all"
    /\ rowsConnected = FALSE
    /\ rowsPending = FALSE
    /\ rowsInFlight = <<>>
    /\ countConnected = FALSE
    /\ countPending = FALSE
    /\ countInFlight = <<>>
    /\ lastWindow = NoQuery
    /\ lastIssued = NoQuery
    /\ lastMerge = NoQuery
    /\ lastError = NoQuery
    /\ InitScrollVars

NextArray ==
    \/ \E arr \in Arrays : ArrayBind(arr) /\ UNCHANGED scrollVars
    \/ \E s \in ArraySortValues : ArraySetSort(s) /\ UNCHANGED scrollVars
    \/ \E o \in WindowOffsets, l \in WindowLimits :
          SetWindowCall(o, l) /\ UNCHANGED scrollVars

SpecArray == InitArray /\ [][NextArray]_vars

\* C25: in array mode the effect that binds the rows leaves totalRows equal to
\* the length of the array, row i of the model equal to element i of the array
\* and isLoading false; no query client exists or is connected, and no call of
\* setWindow makes a query pending or in flight.
C25_ArrayModeBindsRowsWithoutClient ==
    [][/\ arrayRows' # arrayRows
          => /\ totalRows' = Len(arrayRows'.rows)
             /\ \A i \in 0..(Len(arrayRows'.rows) - 1) :
                   hasRow(i)' /\ rows'[i] = arrayRows'.rows[i + 1]
             /\ DOMAIN rows' = 0..(Len(arrayRows'.rows) - 1)
             /\ isLoading' = FALSE
       /\ arrayRows' # NoQuery
          => /\ ~rowsClientRef' /\ ~rowsConnected' /\ ~countConnected'
             /\ ~rowsPending' /\ rowsInFlight' = <<>>
             /\ ~countPending' /\ countInFlight' = <<>>
             /\ totalRows' = Len(arrayRows'.rows)]_vars

\* An array of the largest length is bound and stored in its own order.
C25_Witness ==
    /\ arrayRows # NoQuery
    /\ Len(arrayRows.rows) = MaxArrayLen
    /\ sort = NullSort
    /\ \A i \in 0..(MaxArrayLen - 1) : hasRow(i) /\ rows[i] = arrayRows.rows[i + 1]
    /\ ~isLoading
    /\ ~rowsPending

\* ------------------------------------------------------------- rebinding

\* A render changes table, coordinator, filter or columns while the binding is
\* idle (init() finished, no row query requested or outstanding): React runs
\* the cleanup of the previous effect run and the body of the new one back to
\* back. The cleanup disconnects the clients the refs hold; the body makes a
\* fresh `cancelled` flag, sets isLoading and starts init(). The refs, the
\* model and the scheduler's fetchWindowRef are left as they are.
Rebind ==
    /\ initPc = "ready"
    /\ ~cancelled
    /\ ~rowsPending
    /\ rowsInFlight = <<>>
    /\ initPc' = "import"
    /\ isLoading' = TRUE
    /\ rowsConnected' = FALSE
    /\ countConnected' = FALSE
    /\ UNCHANGED <<cancelled, arrayRows, sort, rows, totalRows, rowsClientRef,
                   currentSort, currentOffset, currentLimit, filter, rowsPending,
                   rowsInFlight, countPending, countInFlight, lastWindow,
                   lastIssued, lastMerge, lastError>>

\* The table of SpecTable whose binding may be replaced while the user is
\* scrolled away from the top.
NextRebind ==
    \/ NextTable
    \/ Rebind /\ UNCHANGED scrollVars
    \/ InitImported /\ UNCHANGED scrollVars
    \/ InitSchemaFetched /\ UNCHANGED scrollVars
    \/ InitRowsConnected /\ UNCHANGED scrollVars

SpecRebind == InitTable /\ [][NextRebind]_vars

\* C26: whenever the scheduler holds a recorded fetch window, a row client
\* exists and its current offset and limit are those of the recorded window.
C26_RecordedWindowIsClientWindow ==
    fetchWindowRef # NoQuery
       => /\ rowsClientRef
          /\ currentOffset = fetchWindowRef.offset
          /\ currentLimit = fetchWindowRef.limit

\* ----------------------------------------------------------- settling

\* The table of SpecRebind over the huge table.
InitLive ==
    /\ initPc = "ready"
    /\ cancelled = FALSE
    /\ arrayRows = NoQuery
    /\ sort = NullSort
    /\ isLoading = TRUE
    /\ rows = NoRows
    /\ totalRows = 0
    /\ rowsClientRef = TRUE
    /\ currentSort = NullSort
    /\ currentOffset = 0
    /\ currentLimit = DefaultLimit
    /\ filter = "huge"
    /\ rowsConnected = TRUE
    /\ rowsPending = TRUE
    /\ rowsInFlight = <<>>
    /\ countConnected = TRUE
    /\ countPending = TRUE
    /\ countInFlight = <<>>
    /\ lastWindow = NoQuery
    /\ lastIssued = NoQuery
    /\ lastMerge = NoQuery
    /\ lastError = NoQuery
    /\ InitScrollVars

LiveRowIndexes == {HugeRows - 1}
LiveSorts == {SortField("a", FALSE)}

\* What the user and the application do: a jump to the last row, a sort by one
\* column, a rebinding.
LiveInput ==
    \/ \E i \in LiveRowIndexes : scrollToRow(i)
    \/ \E s \in LiveSorts : SortChanged(s)
    \/ Rebind /\ UNCHANGED scrollVars

\* The connected count client delivers the count of the table.
LiveCount == countConnected /\ TotalRowsChanged(TableCount(filter))
LiveRowsIssue == RowsIssue /\ UNCHANGED scrollVars
LiveRowsDeliver == RowsDeliver /\ UNCHANGED scrollVars
LiveImported == InitImported /\ UNCHANGED scrollVars
LiveSchemaFetched == InitSchemaFetched /\ UNCHANGED scrollVars
LiveRowsConnected == InitRowsConnected /\ UNCHANGED scrollVars

\* What the host, the coordinator and the database do on their own.
LiveSystem ==
    \/ Tick
    \/ LiveCount
    \/ LiveRowsIssue
    \/ LiveRowsDeliver
    \/ LiveImported
    \/ LiveSchemaFetched
    \/ LiveRowsConnected

NextLive == LiveInput \/ LiveSystem

\* While a frame is requested, a promise of init() is unresolved, a connected
\* client has requested a query or a query is outstanding, one of these steps is
\* eventually taken: the host runs frames, promises resolve, the coordinator
\* starts queries and the database answers them. Each such step uses up what
\* enabled it, so no step is postponed for ever.
SpecLive == InitLive /\ [][NextLive]_vars /\ WF_vars(LiveSystem)

\* Every position of the range visible at the current offset holds a row.
VisibleLoaded ==
    /\ totalRows > 0
    /\ LET visible == computeVisibleRange(scrollTopRef, viewportHeight, rowHeight,
                                          totalRows)
       IN  \A i \in visible.start..(visible.end - 1) : hasRow(i)

\* C27: once input has stopped, the rows of the visible range are eventually
\* loaded and stay loaded.
C27_VisibleRowsEventuallyLoaded ==
    (<>[][LiveSystem]_vars) => <>[]VisibleLoaded

\* ------------------------------------------------------- sort of the handle

\* C28: in Mosaic mode, whenever a row client exists, the sort the data handle
\* exposes is the sort the client builds its queries with.
C28_HandleSortIsClientSort ==
    (arrayRows = NoQuery /\ rowsClientRef) => sort = currentSort

\* ------------------------------------------- published range, offset bounds

\* C29: while the table is mounted and no frame callback is outstanding, the
\* published visible range is the one computed from the current offset,
\* viewport height, row height and row count.
C29_PublishedRangeIsCurrent ==
    (mounted /\ Len(frames) = 0 /\ rafIdRef = 0 /\ viewportHeight > 0)
       => visibleRowRange =
             computeVisibleRange(scrollTopRef, viewportHeight, rowHeight, totalRows)

\* C30: the vertical scroll offset lies in [0, max(0, totalHeight -
\* viewportHeight)] for the current row count, in every state of a mounted
\* table.
C30_ScrollTopInBounds ==
    mounted => (0 <= scrollTopRef /\ scrollTopRef <= maxScrollTop)

\* ------------------------------------------------- claims: array-mode sort

\* The rows the model serves, as a sequence.
ServedRows == [i \in 1..totalRows |-> rows[i - 1]]

\* Two rows agree on every sort field.
SameKey(a, b, fields) == \A k \in 1..Len(fields) : a[fields[k].column] = b[fields[k].column]

\* r holds the rows of arr ordered by value: it is a rearrangement of arr
\* in which no row comes after a row the sort places it strictly before, and
\* rows with the same sort key keep the order they have in arr. A null value
\* leaves arr as it is.
OrderedBy(r, arr, value) ==
    IF value = NullSort THEN r = arr
    ELSE LET fields == sortFieldsOf(value)
             n == Len(arr)
         IN  /\ Len(r) = n
             /\ \E q \in Permutations(1..n) :
                   /\ \A i \in 1..n : r[i] = arr[q[i]]
                   /\ \A i, j \in 1..n :
                         i < j => /\ compareRows(r[j], r[i], fields, 1) >= 0
                                  /\ SameKey(r[i], r[j], fields) => q[i] < q[j]

\* C31: in array mode a setSort(s) leaves in the model all rows of the input
\* array ordered by s (ties in input order, input order for null), with
\* totalRows the length of the array, and leaves the input array as it was.
C31_ArraySetSortOrdersRows ==
    [][\A s \in ArraySortValues :
          ArraySetSort(s) =>
             /\ arrayRows' = arrayRows
             /\ totalRows' = Len(arrayRows.rows)
             /\ DOMAIN rows' = 0..(totalRows' - 1)
             /\ OrderedBy(ServedRows', arrayRows.rows, s)]_vars

\* C32: in array mode, whenever the handle's sort is not null, no served row
\* comes after a row the sort places it strictly before. Stated for arrays over
\* which the comparator is consistent.
C32_ServedRowsFollowSort ==
    (/\ arrayRows # NoQuery
     /\ sort # NullSort
     /\ consistentComparator(arrayRows.rows, sortFieldsOf(sort)))
       => \A i, j \in 1..totalRows :
             i < j => compareRows(ServedRows[j], ServedRows[i], sortFieldsOf(sort), 1) >= 0

\* ------------------------------------------- claims: count and rows results

\* The model after the count result n and then the batch merged at offset.
CountThenRows(m, n, offset, batch) == mergeRows(setTotalRowsRows(m, n), offset, batch)

\* The model after the batch merged at offset and then the count result n.
RowsThenCount(m, n, offset, batch) == setTotalRowsRows(mergeRows(m, offset, batch), n)

\* C33: after a filter update (the filter is no longer the initial one), when a
\* count result and a rows result of the current filter are both outstanding,
\* delivering them in either order leaves the same stored rows (totalRows is
\* the count in both orders).
C33_DeliveryOrderIrrelevant ==
    \A i \in 1..Len(rowsInFlight), j \in 1..Len(countInFlight) :
       LET q == rowsInFlight[i]
           batch == queryResult(QueryRows(q.s, q.f, q.offset, q.limit))
           n == TableCount(countInFlight[j].f)
       IN  (filter = "some" /\ q.f = filter /\ countInFlight[j].f = filter)
              => CountThenRows(rows, n, ResultOffset(q), batch)
                    = RowsThenCount(rows, n, ResultOffset(q), batch)

\* --------------------------------------------------- claims: publication

\* C34: a run of updateScroll whose recomputed range has the start and end of
\* the published one leaves the published range object as it is: observers
\* get no new range.
C34_RangePublishedOnlyIfChanged ==
    [][(RanUpdateScroll /\ visibleRowRange' = visibleRowRange)
          => rangeObject' = rangeObject]_vars

\* A frame ran after a horizontal scroll, which leaves the range as it was, and
\* the range published when the count arrived is still the first object
\* published.
C34_Witness ==
    /\ mounted
    /\ scrollLeft > 0
    /\ visibleRowRange.end > 0
    /\ rangeObject = 1
    /\ Len(frames) = 0
    /\ rafIdRef = 0

\* ------------------------------------------------------ failure and retry

RetryIssue == RowsIssue /\ UNCHANGED scrollVars
RetryDeliver == RowsDeliver /\ UNCHANGED scrollVars
RetryFail == RowsFail /\ UNCHANGED scrollVars

\* A connected row client whose queries may fail, driven by setWindow and
\* setSort.
NextRetry ==
    \/ \E s \in Sorts : setSort(s) /\ UNCHANGED scrollVars
    \/ \E o \in WindowOffsets, l \in WindowLimits :
          SetWindowCall(o, l) /\ UNCHANGED scrollVars
    \/ RetryIssue
    \/ RetryDeliver
    \/ RetryFail

\* The coordinator starts a requested query once none is outstanding, and the
\* database answers every query, with rows or with an error.
SpecRetry ==
    /\ InitQuery
    /\ [][NextRetry]_vars
    /\ WF_vars(RetryIssue)
    /\ WF_vars(RetryDeliver \/ RetryFail)

\* C35: a failing query requests nothing and starts nothing; a query starts
\* only when a request is pending; after a failure a setWindow or setSort
\* makes a request pending, and a pending request is eventually started.
C35_FailureNotRetriedNotBlocking ==
    /\ [][RetryFail => (rowsPending' = rowsPending
                          /\ Len(rowsInFlight') < Len(rowsInFlight))]_vars
    /\ [][Len(rowsInFlight') > Len(rowsInFlight) => rowsPending]_vars
    /\ [][(lastError # NoQuery
            /\ ((\E s \in Sorts : setSort(s))
                  \/ (\E o \in WindowOffsets, l \in WindowLimits : SetWindowCall(o, l))))
             => rowsPending']_vars
    /\ (lastError # NoQuery /\ rowsPending) ~> (Len(rowsInFlight) > 0 /\ ~rowsPending)

\* A query has failed, and the query of the window requested last is
\* outstanding.
C35_Witness ==
    /\ lastError # NoQuery
    /\ Len(rowsInFlight) = 1
    /\ lastWindow # NoQuery
    /\ lastIssued = lastWindow
    /\ ~rowsPending

\* ------------------------------------------------------- count results

\* Results a count query may be answered with: the count, no row, a NULL
\* count, and more than one row.
CountDatas(f) ==
    {CountData(f), <<>>, <<[count |-> SqlNull]>>,
     <<[count |-> BigInt(1)], [count |-> BigInt(MaxRows)]>>}

\* The binding of SpecQuery over a database that answers count queries with
\* any of these results.
NextCount ==
    \/ NextQuery
    \/ \E i \in 1..Len(countInFlight), data \in CountDatas(filter) :
          CountDeliverData(i, data) /\ UNCHANGED scrollVars

SpecCount == InitQuery /\ [][NextCount]_vars

\* C36: a count result sets totalRows once, to the count field of the first
\* row of the result, and to 0 when the result has no row or the count is
\* NULL; totalRows is a natural number.
C36_CountForwardsFirstRowOrZero ==
    /\ [](totalRows \in Nat)
    /\ [][\A i \in 1..Len(countInFlight), data \in CountDatas(filter) :
             (CountDeliverData(i, data) /\ UNCHANGED scrollVars) =>
                totalRows' = IF data = <<>> THEN 0
                             ELSE IF data[1].count = SqlNull THEN 0
                             ELSE data[1].count.n]_vars

\* The one count query of the binding was answered without a row or with a
\* NULL count, after rows had been merged: totalRows is 0 and no row is stored.
C36_Witness ==
    /\ totalRows = 0
    /\ lastMerge # NoQuery
    /\ rows = NoRows
    /\ Len(countInFlight) = 0
    /\ ~countPending

\* ------------------------------------------------------- unresolved layout

\* The layout is replaced: a re-render with row height rh, after which the
\* initial-fetch effect runs with the new updateScroll.
LayoutChanged(rh) ==
    /\ mounted
    /\ rh # rowHeight
    /\ rowHeight' = rh
    /\ initialFetchEffect(totalRows, rh)
    /\ UNCHANGED <<dataRest, totalRows, mounted, viewportHeight, scrollTopRef,
                   scrollLeftRef, frames, lastTouchRef>>

\* The scheduler mounted before the layout is resolved: the row height is 0.
InitLayout ==
    /\ initPc = "ready"
    /\ cancelled = FALSE
    /\ arrayRows = NoQuery
    /\ sort = NullSort
    /\ isLoading = TRUE
    /\ rows = NoRows
    /\ totalRows = 0
    /\ rowsClientRef = TRUE
    /\ currentSort = NullSort
    /\ currentOffset = 0
    /\ currentLimit = DefaultLimit
    /\ filter = "all"
    /\ rowsConnected = TRUE
    /\ rowsPending = TRUE
    /\ rowsInFlight = <<>>
    /\ countConnected = TRUE
    /\ countPending = TRUE
    /\ countInFlight = <<>>
    /\ lastWindow = NoQuery
    /\ lastIssued = NoQuery
    /\ lastMerge = NoQuery
    /\ lastError = NoQuery
    /\ mounted = TRUE
    /\ rowHeight = 0
    /\ viewportHeight = ViewportHeight
    /\ scrollTopRef = 0
    /\ scrollLeftRef = 0
    /\ rafIdRef = 0
    /\ frames = <<>>
    /\ fetchWindowRef = NoQuery
    /\ lastTouchRef = NoQuery
    /\ visibleRowRange = [start |-> 0, end |-> 0]
    /\ rangeObject = 0
    /\ scrollTop = 0
    /\ scrollLeft = 0
    /\ inputsSince = 0
    /\ scheduledSince = 0

NextLayout ==
    \/ \E d \in WheelDeltas : handleWheel(d[1], d[2])
    \/ \E i \in RowIndexes : scrollToRow(i)
    \/ Tick
    \/ \E f \in Filters : TotalRowsChanged(TableCount(f))
    \/ \E rh \in {0, RowHeight} : LayoutChanged(rh)
    \/ Unmount

SpecLayout == InitLayout /\ [][NextLayout]_vars

\* C37: a frame callback that finds the viewport height 0, or whose row height
\* is 0, clears the pending-frame flag and leaves the published scroll state,
\* the recorded fetch window, the internal offsets and the data binding as
\* they were: nothing is published and setWindow is not called.
C37_TickWithoutLayoutChangesNothing ==
    [][(Tick /\ (viewportHeight = 0 \/ Head(frames).rowHeight = 0))
          => /\ rafIdRef' = 0
             /\ UNCHANGED <<visibleRowRange, rangeObject, scrollTop, scrollLeft,
                            fetchWindowRef, scrollTopRef, scrollLeftRef, lastTouchRef,
                            dataVars>>]_vars

\* A horizontal scroll made while the row height was 0 is still unpublished
\* after its frame ran.
C37_Witness ==
    /\ mounted
    /\ rowHeight = 0
    /\ scrollLeftRef # scrollLeft
    /\ inputsSince = 0
    /\ Len(frames) = 0
    /\ rafIdRef = 0

\* ------------------------------------------------------- touch scrolling

TouchUntouched == UNCHANGED <<scrollTopRef, scrollLeftRef, rafIdRef, frames>>

\* C38: touch scrolling applies the movement since the previous point of the
\* single-finger gesture and nothing else. A touchend or touchcancel forgets
\* the previous point; a single-finger touchstart, and a single-finger
\* touchmove that has no previous point, record the point and scroll nothing;
\* events with another number of touches change nothing; a single-finger
\* touchmove with a previous point moves both offsets against the difference
\* of the two points, clamped to the scroll bounds, records the new point,
\* and requests no frame when both offsets stayed where they were.
C38_TouchAppliesMovementSinceLastPoint ==
    [][/\ handleTouchEnd => (lastTouchRef' = NoQuery /\ TouchUntouched)
       /\ \A p \in TouchPoints :
            /\ handleTouchStart(1, p[1], p[2])
                 => (lastTouchRef' = Touch(p[1], p[2]) /\ TouchUntouched)
            /\ (handleTouchStart(2, p[1], p[2]) \/ handleTouchMove(2, p[1], p[2]))
                 => (UNCHANGED lastTouchRef /\ TouchUntouched)
            /\ (handleTouchMove(1, p[1], p[2]) /\ lastTouchRef = NoQuery)
                 => (lastTouchRef' = Touch(p[1], p[2]) /\ TouchUntouched)
            /\ (handleTouchMove(1, p[1], p[2]) /\ lastTouchRef # NoQuery)
                 => /\ lastTouchRef' = Touch(p[1], p[2])
                    /\ scrollTopRef' =
                         Max(0, Min(maxScrollTop, scrollTopRef - (p[2] - lastTouchRef.y)))
                    /\ scrollLeftRef' =
                         Max(0, Min(maxScrollLeft, scrollLeftRef - (p[1] - lastTouchRef.x)))
                    /\ (UNCHANGED <<scrollTopRef, scrollLeftRef>>
                          => UNCHANGED <<rafIdRef, frames>>)]_vars

\* A finger dragged from (1, 1) to (0, 0) scrolled both offsets by one pixel
\* and its frame is pending.
C38_Witness ==
    /\ mounted
    /\ lastTouchRef = Touch(0, 0)
    /\ scrollTopRef = 1
    /\ scrollLeftRef = 1
    /\ scrollTop = 0
    /\ scrollLeft = 0
    /\ rafIdRef # 0
    /\ inputsSince = 1

\* ------------------------------------------- replacing a busy binding

\* A render changes table, coordinator, filter or columns after init() of the
\* current run has finished, with row or count queries possibly requested or
\* outstanding: the cleanup disconnects the clients the refs hold, and the
\* body of the new run sets isLoading and starts init(). Results of the
\* outstanding queries still reach the replaced clients' queryResult.
Replace ==
    /\ initPc \in {"ready", "failed"}
    /\ ~cancelled
    /\ initPc' = "import"
    /\ isLoading' = TRUE
    /\ rowsConnected' = FALSE
    /\ countConnected' = FALSE
    /\ UNCHANGED <<cancelled, arrayRows, sort, rows, totalRows, rowsClientRef,
                   currentSort, currentOffset, currentLimit, filter, rowsPending,
                   rowsInFlight, countPending, countInFlight, lastWindow,
                   lastIssued, lastMerge, lastError>>

\* The binding with its queries and a sort control; no window requests.
NextReplace ==
    \/ InitImported /\ UNCHANGED scrollVars
    \/ InitSchemaFetched /\ UNCHANGED scrollVars
    \/ InitSchemaFailed /\ UNCHANGED scrollVars
    \/ InitRowsConnected /\ UNCHANGED scrollVars
    \/ \E s \in Sorts : setSort(s) /\ UNCHANGED scrollVars
    \/ RowsIssue /\ UNCHANGED scrollVars
    \/ RowsDeliver /\ UNCHANGED scrollVars
    \/ CountIssue /\ UNCHANGED scrollVars
    \/ CountDeliver /\ UNCHANGED scrollVars
    \/ Replace /\ UNCHANGED scrollVars

SpecReplace == Init /\ [][NextReplace]_vars

\* C39: in Mosaic mode, while init() of the current binding has neither created
\* its clients nor failed, no row result of the current binding can have been
\* merged, so isLoading is true.
C39_LoadingUntilOwnRowsOrFailure ==
    (arrayRows = NoQuery /\ ~cancelled /\ initPc \in {"import", "schema"}) => isLoading
====
